---- MODULE Spec2Model ----
(***************************************************************************)
(* QR check-in engine of the attendance application: QRService             *)
(* (lib/qr-utils), dataService and storage (lib/data).                     *)
(*                                                                         *)
(* Time is in milliseconds, as Date.getTime() gives it; instant 0 is a     *)
(* Monday, 00:00 local time.  A handler that contains no await runs to     *)
(* completion (one action); generateClassQR awaits QRCode.toDataURL and is *)
(* two actions.  The module is loaded once, at Init.                       *)
(***************************************************************************)
EXTENDS Integers, Sequences, FiniteSets, TLC

\* ---------------------------------------------------------------- bounds
MaxTicks == 1        \* clock advances
MaxSessions == 1     \* generateClassQR calls that pass the class check
MaxRecords == 2      \* createAttendanceRecord calls

\* ------------------------------------------------------- program constants
MsPerMinute == 60000
LateThresholdMinutes == 15
DefaultDurationMinutes == 30
MsPerDay == 24 * 60 * 60 * 1000
MsPerHour == 60 * MsPerMinute

\* ------------------------------------------------------------ JS values
\* A Date object, and what JSON.stringify/JSON.parse leave of it: the ISO
\* string of the same instant, which is a string and no longer a Date.
DateObj(t) == [isDate |-> TRUE, t |-> t]
ToJSONDate(d) == [isDate |-> FALSE, t |-> d.t]
\* new Date(x) of a Date or of an ISO string: the Date of that instant.
NewDate(x) == DateObj(x.t)
\* x > now for a Date now: a Date compares by its time value; an ISO string
\* converts to NaN, and every comparison with NaN is false.
GreaterThanDate(x, nowMs) == IF x.isDate THEN x.t > nowMs ELSE FALSE
\* Date.prototype.toDateString: the local calendar day.
toDateString(d) == d.t \div MsPerDay
Weekdays == <<"Monday", "Tuesday", "Wednesday", "Thursday", "Friday", "Saturday", "Sunday">>
\* toLocaleDateString('en-US', {weekday: 'long'})
WeekdayOf(t) == Weekdays[((t \div MsPerDay) % 7) + 1]

\* ids are strings: Date.now().toString(), uuidv4() (the i-th one drawn), the
\* literals of the mock data; an id that is undefined is the empty string
\* (both are falsy).
TsId(t) == ToString(t)
Uuid(i) == "uuid-" \o ToString(i)
LitId(i) == "att" \o ToString(i)
NoId == ""

\* Values of the types a parsed token can hold.
Str(s) == [t |-> "string", s |-> s, n |-> 0]
Num(n) == [t |-> "number", s |-> "", n |-> n]
Bool(b) == [t |-> "boolean", s |-> "", n |-> IF b THEN 1 ELSE 0]
Null == [t |-> "null", s |-> "", n |-> 0]
Undefined == [t |-> "undefined", s |-> "", n |-> 0]
\* !v is true of: undefined, null, "", 0, false.
Falsy(v) ==
  \/ v.t \in { "undefined", "null" }
  \/ v.t = "string" /\ v.s = ""
  \/ v.t \in { "number", "boolean" } /\ v.n = 0
\* ToNumber: a number is itself, true 1, false and null 0, "" 0; undefined
\* and a string that is no numeral (no string of the model is one) are NaN.
ToNumber(v) ==
  IF v.t \in { "number", "boolean", "null" } THEN [nan |-> FALSE, n |-> v.n]
  ELSE IF v.t = "string" /\ v.s = "" THEN [nan |-> FALSE, n |-> 0]
  ELSE [nan |-> TRUE, n |-> 0]
\* a > b on values that are not both strings: false when either is NaN.
GreaterThan(a, b) ==
  /\ ~ToNumber(a).nan /\ ~ToNumber(b).nan
  /\ ToNumber(a).n > ToNumber(b).n

\* ------------------------------------------------------------ JSON
\* A JSON text is a syntax tag and, for an object, its members in order: key
\* and literal.  A literal is a quoted string, a numeral (sign and decimal
\* digits), true, false or null.
Quoted(s) == [lex |-> "string", s |-> s, neg |-> FALSE, d |-> <<>>]
Numeral(neg, d) == [lex |-> "number", s |-> "", neg |-> neg, d |-> d]
Keyword(w) == [lex |-> w, s |-> "", neg |-> FALSE, d |-> <<>>]
ObjectText(members) == [syntax |-> "object", members |-> members]
\* a string JSON.parse throws on, and the text null
Garbage == [syntax |-> "invalid", members |-> <<>>]
NullText == [syntax |-> "null", members |-> <<>>]

RECURSIVE Digits(_)
Digits(n) == IF n < 10 THEN << n >> ELSE Append(Digits(n \div 10), n % 10)
\* the number the first k of the digits d write
RECURSIVE DigitsValue(_, _)
DigitsValue(d, k) == IF k = 0 THEN 0 ELSE 10 * DigitsValue(d, k - 1) + d[k]

\* JSON.stringify of a value, writing numbers as quoted strings.
StringifyValue_Quoting(v) ==
  IF v.t = "string" THEN Quoted(v.s)
  ELSE IF v.t = "number" THEN Quoted("n")
  ELSE IF v.t = "boolean" THEN Keyword(IF v.n = 1 THEN "true" ELSE "false")
  ELSE Keyword("null")
\* JSON.stringify of a value: the literal it is written as.
StringifyValue(v) ==
  IF v.t = "string" THEN Quoted(v.s)
  ELSE IF v.t = "number" THEN Numeral(v.n < 0, Digits(IF v.n < 0 THEN -v.n ELSE v.n))
  ELSE IF v.t = "boolean" THEN Keyword(IF v.n = 1 THEN "true" ELSE "false")
  ELSE Keyword("null")
\* JSON.parse of a literal: the value it denotes.
ParseLiteral(l) ==
  IF l.lex = "string" THEN Str(l.s)
  ELSE IF l.lex = "number" THEN Num(IF l.neg THEN -DigitsValue(l.d, Len(l.d)) ELSE DigitsValue(l.d, Len(l.d)))
  ELSE IF l.lex = "true" THEN Bool(TRUE)
  ELSE IF l.lex = "false" THEN Bool(FALSE)
  ELSE Null

QRKeys == << "classId", "sessionId", "timestamp", "expiresAt" >>
\* JSON.stringify of an object with the QRCodeData keys: a member for every
\* key whose value is not undefined, in the order of the keys.
JSONStringify(qrData) ==
  LET all == [i \in 1..Len(QRKeys) |-> [key |-> QRKeys[i], val |-> qrData[QRKeys[i]]]]
      kept == SelectSeq(all, LAMBDA m : m.val.t # "undefined")
  IN ObjectText([i \in 1..Len(kept) |-> [key |-> kept[i].key, lit |-> StringifyValue(kept[i].val)]])
\* JSON.parse, read as a QRCodeData: it throws on a string that is no JSON
\* text; reading a property of null throws too; a key without member reads
\* as undefined, and of two members with one key the last one counts.
JSONParse(text) ==
  LET Get(key) ==
        LET at == { i \in 1..Len(text.members) : text.members[i].key = key }
        IN IF at = {} THEN Undefined
           ELSE ParseLiteral(text.members[CHOOSE i \in at : \A j \in at : j <= i].lit)
  IN [threw |-> text.syntax # "object",
      classId |-> Get("classId"), sessionId |-> Get("sessionId"),
      timestamp |-> Get("timestamp"), expiresAt |-> Get("expiresAt")]

\* What a token text says, for the observer: its four fields when it parses
\* into a string class id, a string session id and two numbers; else nothing.
NoPayload == [kind |-> "garbage", classId |-> "", sessionId |-> NoId, timestamp |-> 0, expiresAt |-> 0]
Payload(text) ==
  LET q == JSONParse(text)
  IN IF /\ ~q.threw /\ q.classId.t = "string" /\ q.sessionId.t = "string"
        /\ q.timestamp.t = "number" /\ q.expiresAt.t = "number"
     THEN [kind |-> "json", classId |-> q.classId.s, sessionId |-> q.sessionId.s,
           timestamp |-> q.timestamp.n, expiresAt |-> q.expiresAt.n]
     ELSE NoPayload

\* ------------------------------------------------------------ mock data
mockClasses ==
  [class1 |-> [id |-> "class1",
               schedule |-> << [day |-> "Monday", h |-> 9, m |-> 0],
                               [day |-> "Wednesday", h |-> 9, m |-> 0],
                               [day |-> "Friday", h |-> 9, m |-> 0] >>,
               enrolledStudents |-> {"2", "3", "4"}],
   class2 |-> [id |-> "class2",
               schedule |-> << [day |-> "Tuesday", h |-> 14, m |-> 0],
                               [day |-> "Thursday", h |-> 14, m |-> 0] >>,
               enrolledStudents |-> {"2", "3"}],
   class3 |-> [id |-> "class3",
               schedule |-> << [day |-> "Monday", h |-> 15, m |-> 0] >>,
               enrolledStudents |-> {"3", "4"}]]

\* The mock attendance array as the module builds it when loaded at instant t.
mockAttendanceRecordsAt(t) ==
  << [id |-> LitId(1), classId |-> "class1", studentId |-> "2", date |-> DateObj(t),
      status |-> "present", checkedInAt |-> DateObj(t), qrCodeUsed |-> NoId],
     [id |-> LitId(2), classId |-> "class1", studentId |-> "3", date |-> DateObj(t),
      status |-> "late", checkedInAt |-> DateObj(t + 15 * MsPerMinute), qrCodeUsed |-> NoId],
     [id |-> LitId(3), classId |-> "class2", studentId |-> "2", date |-> DateObj(t - MsPerDay),
      status |-> "present", checkedInAt |-> DateObj(t - MsPerDay), qrCodeUsed |-> NoId] >>

\* ------------------------------------------------------------ inputs
\* The instant at which the module is loaded: a Monday, 09:09.
StartTimes == { 7 * MsPerDay + 9 * MsPerHour + 9 * MsPerMinute }
\* The clock advances by six minutes (past the end of a five-minute session,
\* and from 09:09 to the late threshold 09:15); where two sessions of a class
\* are told apart by their instants, also by a millisecond.
TickSteps == { 6 * MsPerMinute }
PairTickSteps == { 1, 6 * MsPerMinute }
\* Sessions are generated for class1 (and asked for an unknown class);
\* class2 is a class without sessions.
GenClassIds == { "class1", "nope" }
QueryClassIds == { "class1", "class2" }
\* The durationMinutes of an issuance request: given (five minutes, zero, a
\* negative number) or left out.
RequestedDurations ==
  { [given |-> TRUE, v |-> 5], [given |-> TRUE, v |-> 0], [given |-> TRUE, v |-> -5],
    [given |-> FALSE, v |-> 0] }
PairRequests == { [given |-> TRUE, v |-> 5], [given |-> FALSE, v |-> 0] }
\* "2" is enrolled in class1 and class2 and has a mock entry of today for
\* class1; "4" is enrolled in class1 only and has no entry.
StudentIds == { "2", "4" }
\* What localStorage does in a browser: work, or throw (storage blocked,
\* quota exhausted); there is none on the server.
Outcomes(inBrowser) == IF inBrowser THEN BOOLEAN ELSE { TRUE }

VARIABLES
  hasWindow,              \* typeof window !== 'undefined': browser, else server
  getItemOk,              \* localStorage.getItem returns (else it throws)
  setItemOk,              \* localStorage.setItem returns (else it throws)
  now,                    \* the clock
  ticks,                  \* clock advances so far
  lsSessions,             \* localStorage[attendance_app_qr_sessions]
  lsAttendance,           \* localStorage[attendance_app_attendance]
  mockAttendanceRecords,  \* the module's in-memory mock array
  pending,                \* generateClassQR calls waiting on QRCode.toDataURL
  nextUuid,               \* uuids drawn so far
  issued,                 \* token strings handed out by generateClassQR
  last,                   \* the call that has just returned: what it was given and
                          \* what it returned (none once its caller has taken the result)
  accepted,               \* the accepted markAttendanceWithQR calls, in order
  eligible                \* (token, student) pairs of calls that met every acceptance condition

vars == << hasWindow, getItemOk, setItemOk, now, ticks, lsSessions, lsAttendance, mockAttendanceRecords,
           pending, nextUuid, issued, last, accepted, eligible >>


\* ------------------------------------------------------------ storage
NoItem == [present |-> FALSE, val |-> <<>>]
Item(v) == [present |-> TRUE, val |-> v]

\* storage.get: the default on the server, when localStorage.getItem throws
\* and when the key is absent; else the parsed item.
StorageGet(item, defaultValue) ==
  IF ~hasWindow THEN defaultValue
  ELSE IF ~getItemOk THEN defaultValue
  ELSE IF item.present THEN item.val ELSE defaultValue

\* storage.set: nothing on the server or when localStorage.setItem throws;
\* else the item becomes the serialised data.
StorageSet(item, json) ==
  IF ~hasWindow THEN item
  ELSE IF ~setItemOk THEN item
  ELSE Item(json)

\* JSON.stringify followed by JSON.parse, per entity: Dates come back as strings.
JSONSession(s) == [s EXCEPT !.generatedAt = ToJSONDate(@), !.expiresAt = ToJSONDate(@)]
JSONRecord(r) == [r EXCEPT !.date = ToJSONDate(@), !.checkedInAt = ToJSONDate(@)]
JSONSessions(ss) == [i \in 1..Len(ss) |-> JSONSession(ss[i])]
JSONRecords(rs) == [i \in 1..Len(rs) |-> JSONRecord(rs[i])]

\* Array.prototype.find over a sequence: the first element among those that
\* satisfy the predicate (hits: their indices), or none (undefined).
Find(seq, hits, none) ==
  IF hits = {} THEN none
  ELSE seq[CHOOSE i \in hits : \A j \in hits : i <= j]

\* ------------------------------------------------------------ dataService
NoClass == [id |-> "", schedule |-> <<>>, enrolledStudents |-> {}]
NoSession == [id |-> NoId, classId |-> "", generatedAt |-> DateObj(0),
              expiresAt |-> DateObj(0), isActive |-> FALSE, attendanceMarked |-> <<>>]
NoRecord == [id |-> NoId, classId |-> "", studentId |-> "", date |-> DateObj(0),
             status |-> "", checkedInAt |-> DateObj(0), qrCodeUsed |-> NoId]

\* getClasses returns the mock classes on every path: as the default, or as
\* the copy initializeData wrote (no caller of createClass exists).
getClassById(id) == IF id \in DOMAIN mockClasses THEN mockClasses[id] ELSE NoClass

getAttendanceRecords == StorageGet(lsAttendance, mockAttendanceRecords)

getAttendanceByDate(date) ==
  SelectSeq(getAttendanceRecords,
            LAMBDA record : toDateString(NewDate(record.date)) = toDateString(date))

getQRSessions == StorageGet(lsSessions, <<>>)

\* getActiveQRSession without the expiry condition.
getActiveQRSession_NoExpiry(classId) ==
  LET sessions == getQRSessions
      Usable(session) == session.classId = classId /\ session.isActive
  IN Find(sessions, { i \in 1..Len(sessions) : Usable(sessions[i]) }, NoSession)

getActiveQRSession(classId) ==
  LET sessions == getQRSessions
      Usable(session) == /\ session.classId = classId
                         /\ session.isActive
                         /\ GreaterThanDate(session.expiresAt, now)
  IN Find(sessions, { i \in 1..Len(sessions) : Usable(sessions[i]) }, NoSession)

\* createQRSession: read all, push, write all; the id is Date.now().toString().
createQRSession(session) ==
  LET sessions == getQRSessions
      newSession == [session EXCEPT !.id = TsId(now)]
  IN StorageSet(lsSessions, JSONSessions(Append(sessions, newSession)))

\* createAttendanceRecord: read all, push, write all.  When the read gives
\* the default, the push lands in the module's mock array itself.
createAttendanceRecord(record) ==
  LET usesMock == ~(hasWindow /\ getItemOk /\ lsAttendance.present)
      newRecord == [record EXCEPT !.id = TsId(now)]
      records == Append(getAttendanceRecords, newRecord)
  IN [record |-> newRecord,
      mock |-> IF usesMock THEN records ELSE mockAttendanceRecords,
      ls |-> StorageSet(lsAttendance, JSONRecords(records))]

\* initializeData seeding without the emptiness test: the mock records are
\* added to whatever the ledger holds.
initializeData_Merging ==
  StorageSet(lsAttendance, JSONRecords(getAttendanceRecords \o mockAttendanceRecords))

\* initializeData seeding the attendance key with the first mock record only.
initializeData_Truncating ==
  IF ~hasWindow THEN lsAttendance
  ELSE IF Len(StorageGet(lsAttendance, <<>>)) = 0
       THEN StorageSet(lsAttendance, JSONRecords(SubSeq(mockAttendanceRecords, 1, 1)))
       ELSE lsAttendance

\* initializeData, attendance part: when the read (default []) is empty, the
\* mock array is written.
initializeData ==
  IF ~hasWindow THEN lsAttendance
  ELSE IF Len(StorageGet(lsAttendance, <<>>)) = 0
       THEN StorageSet(lsAttendance, JSONRecords(mockAttendanceRecords))
       ELSE lsAttendance

\* ------------------------------------------------------------ QRService
\* The duration generateClassQR works with: the generation route passes
\* body.durationMinutes || 30 (0 and undefined are falsy), and the parameter
\* defaults to 30.
IssuanceDuration(request) ==
  IF ~request.given \/ request.v = 0 THEN DefaultDurationMinutes ELSE request.v

\* The QRCodeData object generateClassQR builds; the token is its
\* JSON.stringify.
QRCodeData(classId, sessionId, timestamp, expiresAt) ==
  [classId |-> Str(classId), sessionId |-> Str(sessionId),
   timestamp |-> Num(timestamp), expiresAt |-> Num(expiresAt)]

MsgInvalidData == "Invalid QR code data"
MsgInvalidFormat == "Invalid QR code format"
MsgExpired == "QR code has expired"
MsgClassNotFound == "Class not found"
MsgNotActive == "QR code session is not active"
MsgMissing == "Missing class or session information"
MsgNotEnrolled == "You are not enrolled in this class"
MsgAlreadyToday == "Attendance already marked for this class today"
MsgAlreadySession == "You have already marked attendance for this session"
MsgFailed == "Failed to mark attendance"
MsgMarked(status) == IF status = "late" THEN "Attendance marked as late" ELSE "Attendance marked as present"

ValidationFailure(error) == [success |-> FALSE, error |-> error, classId |-> "", sessionId |-> NoId]

\* cls.id === id and session.classId === classId hold of no value that is
\* not a string: the class id a lookup is made with, or "" (the id of no class).
LookupId(v) == IF v.t = "string" THEN v.s ELSE ""

validateQRCode(qrDataString) ==
  LET qrData == JSONParse(qrDataString)
  IN IF qrData.threw THEN ValidationFailure(MsgInvalidData)
     ELSE IF \/ Falsy(qrData.classId) \/ Falsy(qrData.sessionId)
             \/ Falsy(qrData.timestamp) \/ Falsy(qrData.expiresAt)
          THEN ValidationFailure(MsgInvalidFormat)
     ELSE IF GreaterThan(Num(now), qrData.expiresAt) THEN ValidationFailure(MsgExpired)
     ELSE IF getClassById(LookupId(qrData.classId)) = NoClass
          THEN ValidationFailure(MsgClassNotFound)
     ELSE IF getActiveQRSession(LookupId(qrData.classId)) = NoSession
          THEN ValidationFailure(MsgNotActive)
     ELSE [success |-> TRUE, error |-> "", classId |-> LookupId(qrData.classId),
           sessionId |-> LookupId(qrData.sessionId)]

\* The status with the threshold instant itself counted as late.
AttendanceStatus_AtThreshold(classData) ==
  LET Today(schedule) == schedule.day = WeekdayOf(now)
      none == [day |-> "", h |-> 0, m |-> 0]
      classSchedule == Find(classData.schedule,
                            { i \in 1..Len(classData.schedule) : Today(classData.schedule[i]) },
                            none)
      classStartTime == (now \div MsPerDay) * MsPerDay
                        + classSchedule.h * MsPerHour + classSchedule.m * MsPerMinute
      lateThreshold == classStartTime + LateThresholdMinutes * MsPerMinute
  IN IF classSchedule # none /\ now >= lateThreshold THEN "late" ELSE "present"

\* Lines 209-229: the schedule entry of today's weekday, and late when now is
\* after its start today plus the threshold.
AttendanceStatus(classData) ==
  LET Today(schedule) == schedule.day = WeekdayOf(now)
      none == [day |-> "", h |-> 0, m |-> 0]
      classSchedule == Find(classData.schedule,
                            { i \in 1..Len(classData.schedule) : Today(classData.schedule[i]) },
                            none)
      classStartTime == (now \div MsPerDay) * MsPerDay
                        + classSchedule.h * MsPerHour + classSchedule.m * MsPerMinute
      lateThreshold == classStartTime + LateThresholdMinutes * MsPerMinute
  IN IF classSchedule # none /\ now > lateThreshold THEN "late" ELSE "present"

Rejection(message) ==
  [success |-> FALSE, message |-> message, attendanceId |-> NoId,
   mock |-> mockAttendanceRecords, ls |-> lsAttendance]

\* markAttendanceWithQR writing the record before it looks at the outcome of
\* the validation.
markAttendanceWithQR_CreateFirst(qrDataString, studentId) ==
  LET validation == validateQRCode(qrDataString)
      created == createAttendanceRecord(
                   [id |-> NoId, classId |-> Payload(qrDataString).classId, studentId |-> studentId,
                    date |-> DateObj(now), status |-> "present", checkedInAt |-> DateObj(now),
                    qrCodeUsed |-> Payload(qrDataString).sessionId])
  IN IF ~validation.success
     THEN [success |-> FALSE, message |-> validation.error, attendanceId |-> NoId,
           mock |-> created.mock, ls |-> created.ls]
     ELSE [success |-> TRUE, message |-> MsgMarked("present"),
           attendanceId |-> created.record.id, mock |-> created.mock, ls |-> created.ls]

markAttendanceWithQR(qrDataString, studentId) ==
  LET validation == validateQRCode(qrDataString)
      classId == validation.classId
      sessionId == validation.sessionId
      classData == getClassById(classId)
      today == DateObj(now)
      Mine(record) == record.classId = classId /\ record.studentId = studentId
      ofToday == getAttendanceByDate(today)
      todayAttendance == Find(ofToday, { i \in 1..Len(ofToday) : Mine(ofToday[i]) }, NoRecord)
      qrSession == getActiveQRSession(classId)
      status == AttendanceStatus(classData)
      created == createAttendanceRecord(
                   [id |-> NoId, classId |-> classId, studentId |-> studentId,
                    date |-> today, status |-> status, checkedInAt |-> DateObj(now),
                    qrCodeUsed |-> sessionId])
  IN IF ~validation.success THEN Rejection(validation.error)
     ELSE IF classId = "" \/ sessionId = NoId THEN Rejection(MsgMissing)
     ELSE IF studentId \notin classData.enrolledStudents THEN Rejection(MsgNotEnrolled)
     ELSE IF todayAttendance # NoRecord THEN Rejection(MsgAlreadyToday)
     ELSE IF \E i \in 1..Len(qrSession.attendanceMarked) : qrSession.attendanceMarked[i] = studentId
          THEN Rejection(MsgAlreadySession)
     \* the push onto qrSession.attendanceMarked changes a parsed copy that is
     \* never written back
     ELSE [success |-> TRUE, message |-> MsgMarked(status), attendanceId |-> created.record.id,
           mock |-> created.mock, ls |-> created.ls]

\* deactivateQRSession: flips isActive on the object getActiveQRSession
\* returned, which is never written back; true when a session was found.
deactivateQRSession(classId) == getActiveQRSession(classId) # NoSession

\* ------------------------------------------------------------ observation
\* What a caller can tell of the stores: the ledger and the registry as the
\* data service reads them back.
Ledger == getAttendanceRecords
Registry == getQRSessions

HasEntryOn(records, classId, studentId, day) ==
  \E i \in 1..Len(records) : /\ records[i].classId = classId
                             /\ records[i].studentId = studentId
                             /\ toDateString(NewDate(records[i].date)) = day

IsEnrolled(classId, studentId) == studentId \in getClassById(classId).enrolledStudents

\* A stored session that is active and whose expires-at instant is still ahead.
LiveSessions(classId) ==
  { i \in 1..Len(Registry) : /\ Registry[i].classId = classId
                             /\ Registry[i].isActive
                             /\ NewDate(Registry[i].expiresAt).t > now }

NoCall == [op |-> "none", classId |-> "", studentId |-> "", text |-> Garbage, tok |-> NoPayload, at |-> 0,
           success |-> FALSE, message |-> "", session |-> NoSession,
           sessionId |-> NoId, expiresAt |-> 0,
           enrolled |-> FALSE, entryToday |-> FALSE, live |-> 0, wasIssued |-> FALSE,
           repeat |-> FALSE, attendanceId |-> NoId]

\* ------------------------------------------------------------ actions
Init ==
  /\ hasWindow \in BOOLEAN
  /\ getItemOk \in Outcomes(hasWindow)
  /\ setItemOk \in Outcomes(hasWindow)
  /\ now \in StartTimes
  /\ ticks = 0
  /\ lsSessions = NoItem
  /\ lsAttendance = NoItem
  /\ mockAttendanceRecords = mockAttendanceRecordsAt(now)
  /\ pending = {}
  /\ nextUuid = 0
  /\ issued = {}
  /\ last = NoCall
  /\ accepted = <<>>
  /\ eligible = {}

\* The result of the call that has just returned is taken by its caller; the
\* next call starts after that.
Return ==
  /\ last # NoCall
  /\ last' = NoCall
  /\ UNCHANGED << hasWindow, getItemOk, setItemOk, now, ticks, lsSessions, lsAttendance,
                  mockAttendanceRecords, pending, nextUuid, issued, accepted, eligible >>

Tick(step) ==
  /\ last = NoCall
  /\ ticks < MaxTicks
  /\ now' = now + step
  /\ ticks' = ticks + 1
  /\ last' = NoCall
  /\ UNCHANGED << hasWindow, getItemOk, setItemOk, lsSessions, lsAttendance,
                  mockAttendanceRecords, pending, nextUuid, issued, accepted, eligible >>

InitializeData ==
  /\ last = NoCall
  /\ lsAttendance' = initializeData
  /\ last' = [NoCall EXCEPT !.op = "initializeData", !.at = now, !.success = hasWindow]
  /\ UNCHANGED << hasWindow, getItemOk, setItemOk, now, ticks, lsSessions, mockAttendanceRecords, pending,
                  nextUuid, issued, accepted, eligible >>

\* generateClassQR without its class check.
GenerateBegin_NoClassCheck(limit, classId, durationMinutes) ==
  /\ last = NoCall
  /\ nextUuid < limit
  /\ pending' = pending \cup
         { [classId |-> classId, sessionId |-> Uuid(nextUuid + 1), now |-> now,
            expiresAt |-> now + durationMinutes * MsPerMinute] }
  /\ nextUuid' = nextUuid + 1
  /\ last' = [NoCall EXCEPT !.op = "generateClassQR:await", !.classId = classId, !.at = now]
  /\ UNCHANGED << hasWindow, getItemOk, setItemOk, now, ticks, lsSessions, lsAttendance, mockAttendanceRecords,
                  issued, accepted, eligible >>

\* generateClassQR up to its await (lines 38-60); limit bounds the calls that
\* pass the class check.
GenerateBegin(limit, classId, durationMinutes) ==
  /\ last = NoCall
  /\ IF getClassById(classId) = NoClass
     THEN /\ last' = [NoCall EXCEPT !.op = "generateClassQR", !.classId = classId, !.at = now,
                                    !.message = MsgClassNotFound]
          /\ UNCHANGED << pending, nextUuid >>
     ELSE /\ nextUuid < limit
          /\ pending' = pending \cup
                 { [classId |-> classId, sessionId |-> Uuid(nextUuid + 1), now |-> now,
                    expiresAt |-> now + durationMinutes * MsPerMinute] }
          /\ nextUuid' = nextUuid + 1
          /\ last' = [NoCall EXCEPT !.op = "generateClassQR:await", !.classId = classId, !.at = now]
  /\ UNCHANGED << hasWindow, getItemOk, setItemOk, now, ticks, lsSessions, lsAttendance, mockAttendanceRecords,
                  issued, accepted, eligible >>

\* generateClassQR after its await (lines 60-91): toDataURL rejected (qrOk
\* false), or the session is stored and the token returned.
GenerateEnd(p, qrOk) ==
  /\ last = NoCall
  /\ p \in pending
  /\ pending' = pending \ {p}
  /\ IF ~qrOk
     THEN /\ last' = [NoCall EXCEPT !.op = "generateClassQR", !.classId = p.classId, !.at = now,
                                    !.message = "Failed to generate QR code"]
          /\ UNCHANGED << lsSessions, issued >>
     ELSE /\ lsSessions' = createQRSession(
                 [id |-> NoId, classId |-> p.classId, generatedAt |-> DateObj(p.now),
                  expiresAt |-> DateObj(p.expiresAt), isActive |-> TRUE,
                  attendanceMarked |-> <<>>])
          /\ issued' = issued \cup
                 { JSONStringify(QRCodeData(p.classId, p.sessionId, p.now, p.expiresAt)) }
          /\ last' = [NoCall EXCEPT !.op = "generateClassQR", !.classId = p.classId, !.at = now,
                                    !.success = TRUE, !.sessionId = p.sessionId,
                                    !.expiresAt = p.expiresAt,
                                    !.text = JSONStringify(QRCodeData(p.classId, p.sessionId,
                                                                      p.now, p.expiresAt)),
                                    !.tok = [kind |-> "json", classId |-> p.classId,
                                             sessionId |-> p.sessionId, timestamp |-> p.now,
                                             expiresAt |-> p.expiresAt]]
  /\ UNCHANGED << hasWindow, getItemOk, setItemOk, now, ticks, lsAttendance, mockAttendanceRecords, nextUuid,
                  accepted, eligible >>

\* Token strings a caller can present besides the issued ones: no JSON, the
\* text null, well-formed tokens of class1, of class2 and (expiring now) of an
\* unknown class with a session id of the caller's making, a token without
\* expiresAt, and one whose timestamp and expiresAt are words.
ForgedTokens ==
  { Garbage,
    NullText,
    JSONStringify(QRCodeData("class1", Uuid(0), now, now + MsPerMinute)),
    JSONStringify(QRCodeData("class2", Uuid(0), now, now + MsPerMinute)),
    JSONStringify(QRCodeData("nope", Uuid(0), now, now)),
    JSONStringify([QRCodeData("class1", Uuid(0), now, 0) EXCEPT !.expiresAt = Undefined]),
    JSONStringify([QRCodeData("class1", Uuid(0), 0, 0) EXCEPT !.timestamp = Str("soon"),
                                                              !.expiresAt = Str("never")]) }

\* markAttendanceWithQR(qrDataString, studentId)
Redeem(text, studentId) ==
  LET result == markAttendanceWithQR(text, studentId)
      tok == Payload(text)
      meets == /\ text \in issued /\ now < tok.expiresAt /\ tok.timestamp < tok.expiresAt
               /\ IsEnrolled(tok.classId, studentId)
               /\ ~HasEntryOn(Ledger, tok.classId, studentId, toDateString(DateObj(now)))
  IN /\ last = NoCall
     /\ mockAttendanceRecords' = result.mock
     /\ lsAttendance' = result.ls
     /\ last' = [NoCall EXCEPT !.op = "markAttendanceWithQR", !.classId = tok.classId,
                               !.studentId = studentId, !.text = text, !.tok = tok, !.at = now,
                               !.success = result.success, !.message = result.message,
                               !.sessionId = result.attendanceId,
                               !.enrolled = IsEnrolled(tok.classId, studentId),
                               !.entryToday = HasEntryOn(Ledger, tok.classId, studentId,
                                                         toDateString(DateObj(now))),
                               !.live = Cardinality(LiveSessions(tok.classId)),
                               !.wasIssued = text \in issued,
                               !.repeat = << text, studentId >> \in eligible]
     /\ accepted' = IF result.success
                    THEN Append(accepted, [tok |-> tok, studentId |-> studentId, at |-> now])
                    ELSE accepted
     /\ eligible' = IF meets THEN eligible \cup { << text, studentId >> } ELSE eligible
     /\ UNCHANGED << hasWindow, getItemOk, setItemOk, now, ticks, lsSessions, pending, nextUuid, issued >>

\* getActiveQRCode(classId)
GetActiveQRCode(classId) ==
  /\ last = NoCall
  /\ last' = [NoCall EXCEPT !.op = "getActiveQRCode", !.classId = classId, !.at = now,
                            !.session = getActiveQRSession(classId),
                            !.success = getActiveQRSession(classId) # NoSession,
                            !.live = Cardinality(LiveSessions(classId))]
  /\ UNCHANGED << hasWindow, getItemOk, setItemOk, now, ticks, lsSessions, lsAttendance, mockAttendanceRecords,
                  pending, nextUuid, issued, accepted, eligible >>

\* deactivateQRSession(classId)
DeactivateQRSession(classId) ==
  /\ last = NoCall
  /\ last' = [NoCall EXCEPT !.op = "deactivateQRSession", !.classId = classId, !.at = now,
                            !.success = deactivateQRSession(classId),
                            !.live = Cardinality(LiveSessions(classId))]
  /\ UNCHANGED << hasWindow, getItemOk, setItemOk, now, ticks, lsSessions, lsAttendance, mockAttendanceRecords,
                  pending, nextUuid, issued, accepted, eligible >>

Next ==
  \/ \E step \in TickSteps : Tick(step)
  \/ InitializeData
  \/ \E classId \in GenClassIds, request \in RequestedDurations :
        GenerateBegin(MaxSessions, classId, IssuanceDuration(request))
  \/ \E p \in pending, qrOk \in BOOLEAN : GenerateEnd(p, qrOk)
  \/ \E text \in issued \cup ForgedTokens, studentId \in StudentIds : Redeem(text, studentId)
  \/ \E classId \in QueryClassIds : GetActiveQRCode(classId)
  \/ \E classId \in QueryClassIds : DeactivateQRSession(classId)
  \/ Return

Spec == Init /\ [][Next]_vars

\* The same program with one more generateClassQR call, for the claims about
\* several sessions of one class: the requests are for five minutes or leave
\* the duration out, and the tokens presented are the issued ones.
NextPair ==
  \/ \E step \in PairTickSteps : Tick(step)
  \/ InitializeData
  \/ \E classId \in GenClassIds, request \in PairRequests :
        GenerateBegin(MaxSessions + 1, classId, IssuanceDuration(request))
  \/ \E p \in pending, qrOk \in BOOLEAN : GenerateEnd(p, qrOk)
  \/ \E text \in issued, studentId \in StudentIds : Redeem(text, studentId)
  \/ \E classId \in QueryClassIds : GetActiveQRCode(classId)
  \/ \E classId \in QueryClassIds : DeactivateQRSession(classId)
  \/ Return

SpecPair == Init /\ [][NextPair]_vars

\* ---------------------------------------------- the status step taken alone
\* Lines 209-229 of markAttendanceWithQR, applied to a class at the instant
\* now: the status an accepted redemption is given.  The instants are those
\* around the late threshold of class1 on a Monday (09:15), an instant before
\* the start, instants of the other classes' days, and a Sunday, on which no
\* class meets.
StatusTimes ==
  { 7 * MsPerDay + 9 * MsPerHour + 15 * MsPerMinute - 1,
    7 * MsPerDay + 9 * MsPerHour + 15 * MsPerMinute,
    7 * MsPerDay + 9 * MsPerHour + 15 * MsPerMinute + 1,
    7 * MsPerDay + 8 * MsPerHour,
    7 * MsPerDay + 15 * MsPerHour + 16 * MsPerMinute,
    8 * MsPerDay + 14 * MsPerHour + 15 * MsPerMinute,
    8 * MsPerDay + 14 * MsPerHour + 16 * MsPerMinute,
    9 * MsPerDay + 9 * MsPerHour + 9 * MsPerMinute,
    13 * MsPerDay + 10 * MsPerHour }

InitStatus ==
  /\ hasWindow \in BOOLEAN
  /\ getItemOk \in Outcomes(hasWindow)
  /\ setItemOk \in Outcomes(hasWindow)
  /\ now \in StatusTimes
  /\ ticks = 0
  /\ lsSessions = NoItem
  /\ lsAttendance = NoItem
  /\ mockAttendanceRecords = mockAttendanceRecordsAt(now)
  /\ pending = {}
  /\ nextUuid = 0
  /\ issued = {}
  /\ last = NoCall
  /\ accepted = <<>>
  /\ eligible = {}

DetermineStatus(classId) ==
  /\ last = NoCall
  /\ last' = [NoCall EXCEPT !.op = "status", !.classId = classId, !.at = now,
                            !.message = AttendanceStatus(getClassById(classId))]
  /\ UNCHANGED << hasWindow, getItemOk, setItemOk, now, ticks, lsSessions, lsAttendance,
                  mockAttendanceRecords, pending, nextUuid, issued, accepted, eligible >>

NextStatus ==
  \/ \E step \in TickSteps : Tick(step)
  \/ \E classId \in DOMAIN mockClasses : DetermineStatus(classId)
  \/ Return

SpecStatus == InitStatus /\ [][NextStatus]_vars

\* ------------------------------------- the accept path taken alone
\* What markAttendanceWithQR does to the stores once validateQRCode has
\* returned success for an issued token.  In the program above it never
\* does (its session check, lines 129-135, fails in every state); here that
\* check is taken as passed and every line after it is as in the source.
\* The instant at which the module is loaded: a Monday, 09:09 or 23:00.
LedgerTimes == { 7 * MsPerDay + 9 * MsPerHour + 9 * MsPerMinute, 7 * MsPerDay + 23 * MsPerHour }
\* The clock advances by an hour (from 23:00 to midnight).
LedgerTickSteps == { MsPerHour }
\* The milliseconds between the clock read of line 188 (today) and that of
\* line 236 (checkedInAt): none, or one.
ReadGaps == { 0, 1 }

InitLedger ==
  /\ hasWindow \in BOOLEAN
  /\ getItemOk \in Outcomes(hasWindow)
  /\ setItemOk \in Outcomes(hasWindow)
  /\ now \in LedgerTimes
  /\ ticks = 0
  /\ lsSessions = NoItem
  /\ lsAttendance = NoItem
  /\ mockAttendanceRecords = mockAttendanceRecordsAt(now)
  /\ pending = {}
  /\ nextUuid = 0
  /\ issued = {}
  /\ last = NoCall
  /\ accepted = <<>>
  /\ eligible = {}

\* markAttendanceWithQR from line 171 on, for a token generateClassQR issued
\* whose validation has given its class id and session id (lines 137-142):
\* the checks of lines 179-206, the status step, the record of lines 232-239
\* given to createAttendanceRecord, the push of line 243 and the result of
\* lines 247-251.  today is the clock read of line 188, gap milliseconds
\* before now (a read the clock has shown since the module was loaded);
\* checkedInAt is the clock read of line 236, now.  qrSession (line 201) is
\* one of the stored sessions of the class, parsed from storage: the check of
\* line 202 passes when none of them holds the member, and the push of line
\* 243 is onto the parsed object, which no code writes back, so that the
\* stored sessions are left as they are.
MarkValidated(text, studentId, gap) ==
  LET tok == Payload(text)
      classId == tok.classId
      sessionId == tok.sessionId
      classData == getClassById(classId)
      today == DateObj(now - gap)
      Mine(record) == record.classId = classId /\ record.studentId = studentId
      ofToday == getAttendanceByDate(today)
      todayAttendance == Find(ofToday, { i \in 1..Len(ofToday) : Mine(ofToday[i]) }, NoRecord)
      sessions == getQRSessions
      status == AttendanceStatus(classData)
      created == createAttendanceRecord(
                   [id |-> NoId, classId |-> classId, studentId |-> studentId,
                    date |-> today, status |-> status, checkedInAt |-> DateObj(now),
                    qrCodeUsed |-> sessionId])
  IN /\ last = NoCall
     /\ gap = 0 \/ ticks > 0
     /\ Len(accepted) < MaxRecords
     /\ ~(now > tok.expiresAt)
     /\ classData # NoClass
     /\ studentId \in classData.enrolledStudents
     /\ todayAttendance = NoRecord
     /\ \A n \in 1..Len(sessions) :
           (sessions[n].classId = classId) =>
              ~\E i \in 1..Len(sessions[n].attendanceMarked) :
                   sessions[n].attendanceMarked[i] = studentId
     /\ mockAttendanceRecords' = created.mock
     /\ lsAttendance' = created.ls
     /\ last' = [NoCall EXCEPT !.op = "markAttendanceWithQR:171", !.classId = classId,
                               !.studentId = studentId, !.text = text, !.tok = tok, !.at = now,
                               !.success = TRUE, !.message = MsgMarked(status),
                               !.sessionId = sessionId,
                               !.attendanceId = created.record.id]
     /\ accepted' = Append(accepted, [tok |-> tok, studentId |-> studentId, at |-> now])
     /\ UNCHANGED << hasWindow, getItemOk, setItemOk, now, ticks, lsSessions, pending, nextUuid,
                     issued, eligible >>

\* The browser's storage fills up: from here on localStorage.setItem throws
\* (QuotaExceededError), which storage.set catches (lines 37-40).
QuotaExceeded ==
  /\ last = NoCall
  /\ hasWindow /\ setItemOk
  /\ setItemOk' = FALSE
  /\ UNCHANGED << hasWindow, getItemOk, now, ticks, lsSessions, lsAttendance, mockAttendanceRecords,
                  pending, nextUuid, issued, last, accepted, eligible >>

\* Sessions are generated for class1, for five minutes or with the duration
\* left out, and their tokens presented by two members.
NextLedger ==
  \/ \E step \in LedgerTickSteps : Tick(step)
  \/ InitializeData
  \/ \E request \in PairRequests : GenerateBegin(MaxSessions, "class1", IssuanceDuration(request))
  \/ \E p \in pending, qrOk \in BOOLEAN : GenerateEnd(p, qrOk)
  \/ \E text \in issued, studentId \in StudentIds, gap \in ReadGaps :
        MarkValidated(text, studentId, gap)
  \/ QuotaExceeded
  \/ Return

SpecLedger == InitLedger /\ [][NextLedger]_vars

\* ------------------------------------------------------------ claims
Marked == last.op = "markAttendanceWithQR"
WellFormed(tok) == /\ tok.kind = "json" /\ tok.classId # "" /\ tok.sessionId # NoId
                   /\ tok.timestamp # 0 /\ tok.expiresAt # 0
\* The call that has just returned was a redemption that meets every
\* condition of acceptance: a token generateClassQR issued with a duration
\* > 0, presented before its expires-at by a member enrolled in its class
\* who has no entry for the class today.
MeetsAcceptance ==
  /\ Marked /\ last.wasIssued
  /\ last.tok.timestamp < last.tok.expiresAt
  /\ last.at < last.tok.expiresAt
  /\ last.enrolled /\ ~last.entryToday
EntriesFor(classId, studentId, day) ==
  { i \in 1..Len(Ledger) : /\ Ledger[i].classId = classId
                           /\ Ledger[i].studentId = studentId
                           /\ toDateString(NewDate(Ledger[i].date)) = day }

\* C1: for every session and member at most one redemption is Accepted, and
\* every other redemption (of those that meet every other condition of
\* acceptance) is rejected with "already marked attendance for this session".
C1_NoDoubleCounting ==
  /\ \A i, j \in 1..Len(accepted) :
        (i # j) => ~(accepted[i].tok = accepted[j].tok /\ accepted[i].studentId = accepted[j].studentId)
  /\ MeetsAcceptance => (last.success \/ last.message = MsgAlreadySession)

C3_RejectionFrame ==
  [][(last'.op = "markAttendanceWithQR" /\ ~last'.success) =>
       /\ lsSessions' = lsSessions /\ lsAttendance' = lsAttendance
       /\ mockAttendanceRecords' = mockAttendanceRecords
       /\ Registry' = Registry /\ Ledger' = Ledger]_vars
\* A redemption that met every condition of acceptance was rejected while a
\* session was stored.
C3_Witness == MeetsAcceptance /\ ~last.success /\ Len(Registry) > 0

\* C4: a redemption that meets every condition of acceptance is Accepted and
\* leaves exactly one entry for its class, member and day in the ledger.
\* (deactivateQRSession changes no state, so none can lie in between.)
C4_IssuedTokenAccepted ==
  MeetsAcceptance =>
    /\ last.success
    /\ Cardinality(EntriesFor(last.classId, last.studentId, toDateString(DateObj(last.at)))) = 1

\* C5: whatever getActiveQRSession answers, it is none of the stored sessions
\* that are of another class, not active, or whose expires-at is at or before
\* the time of the call; a session it does return is a stored one.
C5_FindUsableSound ==
  last.op = "getActiveQRCode" =>
     /\ \A i \in 1..Len(Registry) :
           (\/ Registry[i].classId # last.classId
            \/ ~Registry[i].isActive
            \/ NewDate(Registry[i].expiresAt).t <= last.at) => last.session # Registry[i]
     /\ last.success => \E i \in 1..Len(Registry) : last.session = Registry[i]
\* getActiveQRSession has answered for a class one of whose stored sessions
\* had a positive duration and has expired by the time of the call.
C5_Witness ==
  /\ last.op = "getActiveQRCode" /\ last.at = now
  /\ \E i \in 1..Len(Registry) :
        /\ Registry[i].classId = last.classId
        /\ Registry[i].generatedAt.t < Registry[i].expiresAt.t
        /\ Registry[i].expiresAt.t < last.at

\* C6: when several stored sessions of the class are active and unexpired,
\* getActiveQRSession returns the one with the latest generatedAt.
C6_LatestIssued ==
  (last.op = "getActiveQRCode" /\ last.at = now /\ last.live >= 2) =>
     /\ last.success
     /\ \A i \in LiveSessions(last.classId) :
           NewDate(Registry[i].generatedAt).t <= NewDate(last.session.generatedAt).t

\* C8: a second redemption by the same member with the same token, the first
\* having met every condition of acceptance, made the same day while the
\* token is unexpired, is rejected with "already marked attendance for this
\* session".
C8_SecondRedemption ==
  (Marked /\ last.repeat /\ last.at < last.tok.expiresAt) => last.message = MsgAlreadySession

\* C9: a redemption with a well-formed, unexpired token of an existing class
\* by a member who is not enrolled in the class is rejected with "not
\* enrolled in this class".
C9_NotEnrolled ==
  (/\ Marked /\ WellFormed(last.tok) /\ last.at < last.tok.expiresAt
   /\ getClassById(last.classId) # NoClass /\ ~last.enrolled) => last.message = MsgNotEnrolled

\* C10: a redemption made at or after the expires-at of its (well-formed)
\* token is rejected as expired.
C10_ExpiredAtBoundary ==
  (Marked /\ WellFormed(last.tok) /\ last.at >= last.tok.expiresAt) =>
     (~last.success /\ last.message = MsgExpired)

\* The taxonomy reason a caller reads off a rejection message; a message that
\* names none of them is a fault.  "QR code session is not active" is what the
\* code says of a session that is inactive or expired.
Reason(message) ==
  CASE message \in { MsgInvalidData, MsgInvalidFormat } -> "MalformedToken"
    [] message = MsgExpired -> "TokenExpired"
    [] message = MsgClassNotFound -> "ClassNotFound"
    [] message = MsgNotActive -> "SessionExpired"
    [] message = MsgNotEnrolled -> "NotEnrolled"
    [] message = MsgAlreadyToday -> "AlreadyMarkedToday"
    [] message = MsgAlreadySession -> "AlreadyRedeemedThisSession"
    [] OTHER -> "Fault"
\* The call that has just returned was a redemption that passes every check
\* made before the session is looked at: a well-formed, unexpired token of an
\* existing class, an enrolled member, no entry of today.
ReachesSessionCheck ==
  /\ Marked /\ WellFormed(last.tok) /\ last.at < last.tok.expiresAt
  /\ getClassById(last.classId) # NoClass
  /\ last.enrolled /\ ~last.entryToday

\* C11: a redemption that reaches the session check with a token whose
\* session id is the id of no stored session is rejected with SessionNotFound.
C11_SessionNotFound ==
  (/\ ReachesSessionCheck
   /\ \A i \in 1..Len(Registry) : Registry[i].id # last.tok.sessionId) =>
     (~last.success /\ Reason(last.message) = "SessionNotFound")

\* The class has a schedule entry of the weekday of the instant at, and at is
\* more than the fifteen minutes of grace after that entry's start that day.
LateExpected(classId, at) ==
  LET schedule == getClassById(classId).schedule
  IN \E i \in 1..Len(schedule) :
        /\ schedule[i].day = WeekdayOf(at)
        /\ at - (at \div MsPerDay) * MsPerDay
             > (schedule[i].h * 60 + schedule[i].m + 15) * MsPerMinute

\* C12: the status determined at an instant is late if and only if the class
\* has a schedule entry of that weekday and the instant is strictly more than
\* 15 minutes after the entry's start; otherwise it is present (on-time).
C12_StatusBoundary ==
  last.op = "status" =>
     /\ last.message \in { "late", "present" }
     /\ (last.message = "late") <=> LateExpected(last.classId, last.at)
\* The status has been determined, as late, for a class that meets that day.
C12_Witness == last.op = "status" /\ last.message = "late" /\ last.classId = "class1"

\* C13: the token generateClassQR hands out decodes to exactly the payload it
\* encodes (class id, session id, issued-at, expires-at), and validateQRCode
\* does not reject it as malformed.
C13_RoundTrip ==
  (last.op = "generateClassQR" /\ last.success) =>
     LET P == QRCodeData(last.tok.classId, last.tok.sessionId,
                         last.tok.timestamp, last.tok.expiresAt)
         decoded == JSONParse(last.text)
     IN /\ ~decoded.threw
        /\ decoded.classId = P.classId /\ decoded.sessionId = P.sessionId
        /\ decoded.timestamp = P.timestamp /\ decoded.expiresAt = P.expiresAt
        /\ Reason(validateQRCode(last.text).error) # "MalformedToken"
\* generateClassQR has handed out a token of a positive duration.
C13_Witness ==
  /\ last.op = "generateClassQR" /\ last.success /\ last.text \in issued
  /\ last.tok.timestamp < last.tok.expiresAt

\* C14: a redemption with a token string that does not parse into the four
\* required fields (a string class id and session id, a numeric issued-at and
\* expires-at) is rejected as malformed.
C14_MalformedRejected ==
  (Marked /\ last.tok = NoPayload) =>
     (~last.success /\ Reason(last.message) = "MalformedToken")

\* C15: every stored session has expires-at > issued-at, and every token
\* generateClassQR hands out has expires-at > issued-at.
C15_PositiveDuration ==
  /\ \A i \in 1..Len(Registry) :
        NewDate(Registry[i].expiresAt).t > NewDate(Registry[i].generatedAt).t
  /\ (last.op = "generateClassQR" /\ last.success) => last.tok.expiresAt > last.tok.timestamp

\* C16: for every issued token the registry holds a session with the
\* token's session id, class id, issued-at and expires-at.
C16_TokenMatchesSession ==
  \A text \in issued :
     \E i \in 1..Len(Registry) :
        /\ Registry[i].id = Payload(text).sessionId
        /\ Registry[i].classId = Payload(text).classId
        /\ NewDate(Registry[i].generatedAt).t = Payload(text).timestamp
        /\ NewDate(Registry[i].expiresAt).t = Payload(text).expiresAt

\* C17: a redemption during which a storage read fails (the call got as far
\* as its first read, localStorage.getItem throws) is reported as the generic
\* failure, not as a taxonomy rejection and not as accepted.
C17_FaultIsGeneric ==
  (/\ Marked /\ hasWindow /\ ~getItemOk
   /\ WellFormed(last.tok) /\ last.at <= last.tok.expiresAt) =>
     (~last.success /\ Reason(last.message) = "Fault")

\* C19: a generateClassQR call for a class id that names no class returns the
\* error "Class not found" and leaves the sessions, the pending issuances and
\* the issued tokens as they were.
C19_UnknownClass ==
  [][(last'.op \in { "generateClassQR", "generateClassQR:await" }
      /\ getClassById(last'.classId) = NoClass) =>
       /\ ~last'.success /\ last'.message = MsgClassNotFound
       /\ lsSessions' = lsSessions /\ Registry' = Registry
       /\ pending' = pending /\ issued' = issued]_vars
\* generateClassQR has returned for an unknown class while a session was stored.
C19_Witness ==
  /\ last.op = "generateClassQR" /\ getClassById(last.classId) = NoClass
  /\ Len(Registry) > 0

\* The fields of an Attendance Entry, dates by their instant.
EntryFields(r) ==
  << r.id, r.classId, r.studentId, r.status, NewDate(r.date).t, NewDate(r.checkedInAt).t,
     r.qrCodeUsed >>
\* C20: every entry of the ledger is in the ledger, with the same fields,
\* after every step.
C20_AppendOnly ==
  [][\A i \in 1..Len(Ledger) :
        \E j \in 1..Len(Ledger') : EntryFields(Ledger'[j]) = EntryFields(Ledger[i])]_vars
\* initializeData has written the attendance key in a browser with a stored
\* session, and the ledger is read from it.
C20_Witness ==
  /\ last.op = "initializeData" /\ lsAttendance.present /\ getItemOk
  /\ Len(Ledger) > 0 /\ Len(Registry) > 0

\* The entries of the ledger that a call of the accept path has made: the
\* member's, of the call's class and originating session, checked in at the
\* instant of the call.
EntriesOf(a) ==
  { i \in 1..Len(Ledger) : /\ Ledger[i].classId = a.tok.classId
                           /\ Ledger[i].studentId = a.studentId
                           /\ Ledger[i].qrCodeUsed = a.tok.sessionId
                           /\ NewDate(Ledger[i].checkedInAt).t = a.at }
\* The members of the redemption set of the stored sessions with this id.
RedeemedBy(sessionId) ==
  UNION { { Registry[i].attendanceMarked[k] : k \in 1..Len(Registry[i].attendanceMarked) } :
          i \in { n \in 1..Len(Registry) : Registry[n].id = sessionId } }

C25_IssuanceFrame ==
  [][(last'.op = "generateClassQR" /\ last'.success) =>
       /\ Len(Registry') = Len(Registry) + 1
       /\ \A i \in 1..Len(Registry) : Registry'[i] = Registry[i]
       /\ Registry'[Len(Registry')].classId = last'.classId
       /\ Registry'[Len(Registry')].isActive
       /\ Registry'[Len(Registry')].attendanceMarked = <<>>
       /\ NewDate(Registry'[Len(Registry')].generatedAt).t = last'.tok.timestamp
       /\ NewDate(Registry'[Len(Registry')].expiresAt).t = last'.tok.expiresAt
       /\ Ledger' = Ledger]_vars

====
